---- MODULE Spec2Model ----
(***************************************************************************)
(* SynologyActiveBackupLogs (src/synology_active_backup_logs_snippet.py):  *)
(* reassembly of physical log lines into logical entries, resolution of    *)
(* the year-less timestamps, tokenizing of an entry, extraction of the     *)
(* embedded JSON and the subset query.                                     *)
(*                                                                         *)
(* A Python str is a sequence of one-character strings.  A datetime is a   *)
(* record [d |-> proleptic Gregorian ordinal, s |-> second of the day], a  *)
(* timedelta a record [days, seconds], as CPython normalises them.         *)
(***************************************************************************)
EXTENDS Integers, Sequences, FiniteSets, TLC

----------------------------------------------------------------------------
(* Characters and the str methods the class uses. *)

UpperSeq ==
  << "A","B","C","D","E","F","G","H","I","J","K","L","M",
     "N","O","P","Q","R","S","T","U","V","W","X","Y","Z" >>

LowerSeq ==
  << "a","b","c","d","e","f","g","h","i","j","k","l","m",
     "n","o","p","q","r","s","t","u","v","w","x","y","z" >>

DigitSeq == << "0","1","2","3","4","5","6","7","8","9" >>

Range(f) == { f[i] : i \in DOMAIN f }

IsUpper(c) == c \in Range(UpperSeq)

IsLower(c) == c \in Range(LowerSeq)

IsAlpha(c) == IsUpper(c) \/ IsLower(c)

IsDigit(c) == c \in Range(DigitSeq)

\* \w of the re module
IsWordChar(c) == IsAlpha(c) \/ IsDigit(c) \/ c = "_"

\* the characters str.strip() removes and pyparsing skips
IsSpace(c) == c \in { " ", "\t", "\n", "\r" }

DigitVal(c) == (CHOOSE i \in 1..10 : DigitSeq[i] = c) - 1

ToLower(c) ==
  IF IsUpper(c) THEN LowerSeq[CHOOSE i \in 1..26 : UpperSeq[i] = c] ELSE c

LowerStr(s) == [ i \in 1..Len(s) |-> ToLower(s[i]) ]

SetMin(S) == CHOOSE x \in S : \A y \in S : x <= y

SetMax(S) == CHOOSE x \in S : \A y \in S : y <= x

\* str.strip()
strip(s) ==
  LET keep == { i \in 1..Len(s) : ~IsSpace(s[i]) }
  IN  IF keep = {} THEN << >> ELSE SubSeq(s, SetMin(keep), SetMax(keep))

StartsWith(s, p) == Len(p) <= Len(s) /\ SubSeq(s, 1, Len(p)) = p

\* str.replace(old, new): left to right, non-overlapping
RECURSIVE replace(_, _, _)
replace(s, old, new) ==
  IF Len(s) < Len(old) \/ Len(old) = 0 THEN s
  ELSE IF StartsWith(s, old)
       THEN new \o replace(SubSeq(s, Len(old) + 1, Len(s)), old, new)
       ELSE << Head(s) >> \o replace(Tail(s), old, new)

\* the decimal value of a str of digits
RECURSIVE IntOf(_)
IntOf(s) ==
  IF Len(s) = 0 THEN 0
  ELSE 10 * IntOf(SubSeq(s, 1, Len(s) - 1)) + DigitVal(s[Len(s)])

----------------------------------------------------------------------------
(* datetime and timedelta arithmetic. *)

IsLeap(y) == (y % 4 = 0 /\ y % 100 # 0) \/ y % 400 = 0

DaysInMonth(y, m) ==
  IF m = 2 THEN (IF IsLeap(y) THEN 29 ELSE 28)
  ELSE IF m \in {4, 6, 9, 11} THEN 30 ELSE 31

DaysBeforeYear(y) ==
  (y - 1) * 365 + ((y - 1) \div 4) - ((y - 1) \div 100) + ((y - 1) \div 400)

RECURSIVE DaysBeforeMonth(_, _)
DaysBeforeMonth(y, m) ==
  IF m = 1 THEN 0 ELSE DaysBeforeMonth(y, m - 1) + DaysInMonth(y, m - 1)

\* datetime.datetime(y, m, d, hh, mm, ss)
DateTime(y, m, d, hh, mm, ss) ==
  [ d |-> DaysBeforeYear(y) + DaysBeforeMonth(y, m) + d,
    s |-> hh * 3600 + mm * 60 + ss ]

\* datetime.timedelta(days=, seconds=)
TimeDelta(days, seconds) == [ days |-> days, seconds |-> seconds ]

\* datetime < datetime
DtLess(a, b) == a.d < b.d \/ (a.d = b.d /\ a.s < b.s)

\* datetime + timedelta
DtAdd(a, td) ==
  LET t == a.s + td.seconds
  IN  [ d |-> a.d + td.days + (t \div 86400), s |-> t % 86400 ]

\* datetime - timedelta
DtSub(a, td) ==
  LET t == a.s - td.seconds
  IN  [ d |-> a.d - td.days + (t \div 86400), s |-> t % 86400 ]

\* datetime.year, .month, .day
YearOf(a) ==
  CHOOSE y \in (a.d \div 366)..((a.d \div 365) + 1) :
    DaysBeforeYear(y) < a.d /\ a.d <= DaysBeforeYear(y + 1)

MonthOf(a) ==
  LET y == YearOf(a)
      n == a.d - DaysBeforeYear(y)
  IN  CHOOSE m \in 1..12 :
        DaysBeforeMonth(y, m) < n /\ n <= DaysBeforeMonth(y, m) + DaysInMonth(y, m)

DayOf(a) ==
  LET y == YearOf(a) IN a.d - DaysBeforeYear(y) - DaysBeforeMonth(y, MonthOf(a))

----------------------------------------------------------------------------
(* datetime.datetime.strptime("{year} {month} {day} {time}", "%Y %b %d %X") *)
(* on the three groups of __re_timestamp, in the C locale.                  *)

MonthAbbr ==
  << <<"j","a","n">>, <<"f","e","b">>, <<"m","a","r">>, <<"a","p","r">>,
     <<"m","a","y">>, <<"j","u","n">>, <<"j","u","l">>, <<"a","u","g">>,
     <<"s","e","p">>, <<"o","c","t">>, <<"n","o","v">>, <<"d","e","c">> >>

ValueError == [ ok |-> FALSE ]

\* %H:%M:%S on the eight characters of the time group
TimeShape(t) ==
  /\ Len(t) = 8
  /\ \A i \in {1, 2, 4, 5, 7, 8} : IsDigit(t[i])
  /\ t[3] = ":" /\ t[6] = ":"

strptime(year, month, day, time) ==
  LET mset == { m \in 1..12 : MonthAbbr[m] = LowerStr(month) }
      dok  == \/ Len(day) = 1 /\ DigitVal(day[1]) >= 1
              \/ Len(day) = 2 /\ IntOf(day) >= 1 /\ IntOf(day) <= 31
      hh   == IntOf(SubSeq(time, 1, 2))
      mm   == IntOf(SubSeq(time, 4, 5))
      ss   == IntOf(SubSeq(time, 7, 8))
  IN  IF mset = {} \/ ~dok \/ ~TimeShape(time) THEN ValueError
      ELSE IF hh > 23 \/ mm > 59 \/ ss > 59 THEN ValueError
      ELSE LET m == CHOOSE x \in mset : TRUE
           IN  IF IntOf(day) > DaysInMonth(year, m) THEN ValueError
               ELSE [ ok |-> TRUE,
                      dt |-> DateTime(year, m, IntOf(day), hh, mm, ss) ]

----------------------------------------------------------------------------
(* The regular expressions of __init__. *)

\* the number of digits of s from position i on (a greedy \d+)
RECURSIVE DigitRun(_, _)
DigitRun(s, i) ==
  IF i <= Len(s) /\ IsDigit(s[i]) THEN 1 + DigitRun(s, i + 1) ELSE 0

NoMatch == [ ok |-> FALSE ]

\* __re_timestamp.match(line): ^(?P<month>\w{3}) (?P<day>\d+) (?P<time>[\d:]{8})
re_timestamp(line) ==
  LET nd == DigitRun(line, 5)
      t0 == 5 + nd + 1
  IN  IF /\ Len(line) >= 4
         /\ \A i \in 1..3 : IsWordChar(line[i])
         /\ line[4] = " "
         /\ nd >= 1
         /\ Len(line) >= t0 + 7
         /\ line[5 + nd] = " "
         /\ \A i \in t0..(t0 + 7) : IsDigit(line[i]) \/ line[i] = ":"
      THEN [ ok    |-> TRUE,
             month |-> SubSeq(line, 1, 3),
             day   |-> SubSeq(line, 5, 4 + nd),
             time  |-> SubSeq(line, t0, t0 + 7) ]
      ELSE NoMatch

\* $ matches at the end of the string and before a final newline
AtEnd(s, i) == i = Len(s) \/ (i = Len(s) - 1 /\ s[Len(s)] = "\n")

\* re.search(__re_escape_start, s): ("{$|"{")
re_escape_start(s) ==
  \E i \in 1..(Len(s) - 1) :
    /\ s[i] = "\"" /\ s[i + 1] = "{"
    /\ (AtEnd(s, i + 1) \/ (i + 2 <= Len(s) /\ s[i + 2] = "\""))

\* re.search(__re_escape_end, s): }$
re_escape_end(s) == \E i \in 1..Len(s) : s[i] = "}" /\ AtEnd(s, i)

\* re.search(__re_escape_check, s): {.*} where . is no newline
re_escape_check(s) ==
  \E i \in 1..Len(s) : \E j \in (i + 1)..Len(s) :
    /\ s[i] = "{" /\ s[j] = "}"
    /\ \A k \in i..j : s[k] # "\n"

----------------------------------------------------------------------------
(* Python values: a record tagged with its type.  A dict keeps its keys    *)
(* and values in insertion order.                                          *)

PyNone == [ t |-> "None" ]

PyStr(s) == [ t |-> "str", v |-> s ]

PyInt(n) == [ t |-> "int", v |-> n ]

PyDatetime(d) == [ t |-> "datetime", v |-> d ]

PyDict(ks, vs) == [ t |-> "dict", k |-> ks, v |-> vs ]

PyList(vs) == [ t |-> "list", v |-> vs ]

\* a set, with its elements in the order it iterates them
PySet(vs) == [ t |-> "set", v |-> vs ]

HasKey(d, key) == \E i \in 1..Len(d.k) : d.k[i] = key

\* d[key] of a dict that has the key
Get(d, key) == d.v[CHOOSE i \in 1..Len(d.k) : d.k[i] = key]

\* d[key] = val, for a key the dict has
Put(d, key, val) ==
  [ d EXCEPT !.v = [ i \in 1..Len(d.v) |-> IF d.k[i] = key THEN val ELSE d.v[i] ] ]

K_datetime == << "d","a","t","e","t","i","m","e" >>

K_timestamp == << "t","i","m","e","s","t","a","m","p" >>

K_priority == << "p","r","i","o","r","i","t","y" >>

K_method_name == << "m","e","t","h","o","d","_","n","a","m","e" >>

K_method_num == << "m","e","t","h","o","d","_","n","u","m" >>

K_message == << "m","e","s","s","a","g","e" >>

K_json_str == << "j","s","o","n","_","s","t","r" >>

K_json == << "j","s","o","n" >>

----------------------------------------------------------------------------
(* self.__pattern: timestamp + priority + method_name + method_num +       *)
(* message, as pyparsing scans it.  Between the elements of an And         *)
(* pyparsing skips white space; inside a Combine it does not.              *)

\* the number of characters of s from position i on that are in set
RECURSIVE Run(_, _, _)
Run(s, i, set) ==
  IF i <= Len(s) /\ s[i] \in set THEN 1 + Run(s, i + 1, set) ELSE 0

WhiteChars == { " ", "\t", "\n", "\r" }

\* the position pyparsing scans from after skipping white space
SkipWhite(s, i) == i + Run(s, i, WhiteChars)

Uppers == Range(UpperSeq)

Lowers == Range(LowerSeq)

Nums == Range(DigitSeq)

MethodChars == Uppers \cup Lowers \cup Nums \cup { "_", "-", "." }

ParseException == [ ok |-> FALSE ]

\* timestamp: Combine(month + White() + day + White() + hour), from position 1.
\* end is the position after it.
ScanTimestamp(s) ==
  LET w1 == Run(s, 4, WhiteChars)
      d0 == 4 + w1
      nd == Run(s, d0, Nums)
      w2 == Run(s, d0 + nd, WhiteChars)
      h0 == d0 + nd + w2
      n1 == Run(s, h0, Nums)
      n2 == Run(s, h0 + n1 + 1, Nums)
      n3 == Run(s, h0 + n1 + n2 + 2, Nums)
      e  == h0 + n1 + n2 + n3 + 2
  IN  IF /\ Len(s) >= 3
         /\ s[1] \in Uppers /\ s[2] \in Lowers /\ s[3] \in Lowers
         /\ w1 >= 1 /\ nd >= 1 /\ w2 >= 1
         /\ n1 >= 1 /\ h0 + n1 <= Len(s) /\ s[h0 + n1] = ":"
         /\ n2 >= 1 /\ h0 + n1 + n2 + 1 <= Len(s) /\ s[h0 + n1 + n2 + 1] = ":"
         /\ n3 >= 1
      THEN [ ok |-> TRUE, end |-> e ]
      ELSE ParseException

\* the elements of self.__pattern after timestamp, in order
Suppress(text) == [ kind |-> "Suppress", text |-> text, chars |-> {} ]

Word(chars) == [ kind |-> "Word", text |-> << >>, chars |-> chars ]

\* Regex(self.__re_everything): the pattern is compiled without DOTALL, so
\* "." is any character but the newline
RegexEverything == [ kind |-> "Regex", text |-> << >>, chars |-> { "\n" } ]

Pattern ==
  << Suppress(<<"[">>), Word(Uppers), Suppress(<<"]">>),     \* priority
     Word(MethodChars),                                      \* method_name
     Suppress(<<"(">>), Word(Nums), Suppress(<<")", ":">>),  \* method_num
     RegexEverything >>                                      \* message

\* the number of characters of s from position i on that are not in set
RECURSIVE RunNot(_, _, _)
RunNot(s, i, set) ==
  IF i <= Len(s) /\ s[i] \notin set THEN 1 + RunNot(s, i + 1, set) ELSE 0

\* And: element k of the pattern from position i, white space skipped before
\* it; toks are the tokens of the elements matched so far
RECURSIVE ParseAnd(_, _, _, _)
RECURSIVE ParseElement(_, _, _, _, _)
RECURSIVE ParseWord(_, _, _, _, _, _)
ParseAnd(s, i, k, toks) ==
  IF k > Len(Pattern) THEN [ ok |-> TRUE, toks |-> toks ]
  ELSE ParseElement(s, SkipWhite(s, i), k, Pattern[k], toks)

ParseElement(s, j, k, el, toks) ==
  IF el.kind = "Suppress"
  THEN IF StartsWith(SubSeq(s, j, Len(s)), el.text)
       THEN ParseAnd(s, j + Len(el.text), k + 1, toks)
       ELSE ParseException
  ELSE IF el.kind = "Word"
  THEN ParseWord(s, j, k, el, Run(s, j, el.chars), toks)
  ELSE ParseWord(s, j, k, el, RunNot(s, j, el.chars), toks)

\* a Word needs one character at least, the Regex .* matches the empty text
ParseWord(s, j, k, el, n, toks) ==
  IF el.kind = "Word" /\ n = 0 THEN ParseException
  ELSE ParseAnd(s, j + n, k + 1, Append(toks, SubSeq(s, j, j + n - 1)))

\* the results names of the tokens
NamedResults(stamp, r) ==
  IF ~r.ok THEN ParseException
  ELSE [ ok          |-> TRUE,
         timestamp   |-> stamp,
         priority    |-> r.toks[1],
         method_name |-> r.toks[2],
         method_num  |-> r.toks[3],
         message     |-> r.toks[4] ]

AfterTimestamp(s, tsr) ==
  IF ~tsr.ok THEN ParseException
  ELSE NamedResults(SubSeq(s, 1, tsr.end - 1), ParseAnd(s, tsr.end, 1, << >>))

\* self.__pattern.parseString(log): the named results, or ParseException
ScanEntry(s) == AfterTimestamp(s, ScanTimestamp(s))

----------------------------------------------------------------------------
(* json.loads(s, strict=False), for the JSON texts made of objects,        *)
(* strings (with the escapes \" and \\) and unsigned integers.             *)

JSONDecodeError == [ ok |-> FALSE ]

\* a string from the opening quote at position i: its value and the position
\* after the closing quote
RECURSIVE JsonString(_, _, _)
JsonString(s, j, acc) ==
  IF j > Len(s) THEN JSONDecodeError
  ELSE IF s[j] = "\"" THEN [ ok |-> TRUE, val |-> PyStr(acc), end |-> j + 1 ]
  ELSE IF s[j] = "\\"
       THEN IF j + 1 <= Len(s) /\ s[j + 1] \in { "\"", "\\" }
            THEN JsonString(s, j + 2, Append(acc, s[j + 1]))
            ELSE JSONDecodeError
  ELSE JsonString(s, j + 1, Append(acc, s[j]))

RECURSIVE JsonValue(_, _)
RECURSIVE JsonMembers(_, _, _, _)

\* the members of an object from position i (after { or ,)
JsonMembers(s, i, ks, vs) ==
  LET k0 == SkipWhite(s, i)
  IN  IF k0 > Len(s) \/ s[k0] # "\"" THEN JSONDecodeError
      ELSE
      LET key == JsonString(s, k0 + 1, << >>)
      IN  IF ~key.ok THEN JSONDecodeError
          ELSE
          LET c0 == SkipWhite(s, key.end)
          IN  IF c0 > Len(s) \/ s[c0] # ":" THEN JSONDecodeError
              ELSE
              LET val == JsonValue(s, SkipWhite(s, c0 + 1))
              IN  IF ~val.ok THEN JSONDecodeError
                  ELSE
                  LET e0  == SkipWhite(s, val.end)
                      \* a repeated key keeps its place and takes the last value
                      ks2 == IF \E n \in 1..Len(ks) : ks[n] = key.val.v
                             THEN ks ELSE Append(ks, key.val.v)
                      vs2 == IF \E n \in 1..Len(ks) : ks[n] = key.val.v
                             THEN [ n \in 1..Len(vs) |->
                                      IF ks[n] = key.val.v THEN val.val ELSE vs[n] ]
                             ELSE Append(vs, val.val)
                  IN  IF e0 > Len(s) THEN JSONDecodeError
                      ELSE IF s[e0] = "}"
                           THEN [ ok |-> TRUE, val |-> PyDict(ks2, vs2),
                                  end |-> e0 + 1 ]
                      ELSE IF s[e0] = ","
                           THEN JsonMembers(s, e0 + 1, ks2, vs2)
                      ELSE JSONDecodeError

\* a value from position i, which is no white space
JsonValue(s, i) ==
  IF i > Len(s) THEN JSONDecodeError
  ELSE IF s[i] = "\"" THEN JsonString(s, i + 1, << >>)
  ELSE IF s[i] \in Nums
       THEN LET n == Run(s, i, Nums)
            IN  IF n > 1 /\ s[i] = "0" THEN JSONDecodeError
                ELSE [ ok |-> TRUE, val |-> PyInt(IntOf(SubSeq(s, i, i + n - 1))),
                       end |-> i + n ]
  ELSE IF s[i] = "{"
       THEN LET j == SkipWhite(s, i + 1)
            IN  IF j <= Len(s) /\ s[j] = "}"
                THEN [ ok |-> TRUE, val |-> PyDict(<< >>, << >>), end |-> j + 1 ]
                ELSE JsonMembers(s, i + 1, << >>, << >>)
  ELSE JSONDecodeError

json_loads(s) ==
  LET r == JsonValue(s, SkipWhite(s, 1))
  IN  IF r.ok /\ SkipWhite(s, r.end) > Len(s) THEN [ ok |-> TRUE, val |-> r.val ]
      ELSE JSONDecodeError

----------------------------------------------------------------------------
(* parse *)

\* str.strip(chars)
StripChars(s, chars) ==
  LET keep == { i \in 1..Len(s) : s[i] \notin chars }
  IN  IF keep = {} THEN << >> ELSE SubSeq(s, SetMin(keep), SetMax(keep))

\* self.__json_pattern.parseString(message): the group json of
\* (?P<prefix>[^{]*)(?P<json>{.*})(?P<suffix>.*), the span from the first {
\* to the last } of its line
ScanJson(message) ==
  LET opens  == { i \in 1..Len(message) : message[i] = "{" }
      first  == SetMin(opens)
      closes == { j \in 1..Len(message) :
                    /\ j > first /\ message[j] = "}"
                    /\ \A k \in first..j : message[k] # "\n" }
  IN  IF opens = {} THEN ParseException
      ELSE IF closes = {} THEN ParseException
      ELSE [ ok |-> TRUE, json |-> SubSeq(message, first, SetMax(closes)) ]

\* the names of the results of __json_pattern
JsonResultNames == { "prefix", "json", "suffix" }

\* line 135 tests the module object json, which is no results name, where
\* the name "json" is meant
JsonKeyTested == "<module 'json'>"

\* ExtractJson giving up the whole record when the message looks like JSON
\* and no JSON is taken from it
ExtractJsonOrNothing(payload) ==
  IF re_escape_check(Get(payload, K_message).v) THEN PyNone ELSE payload

\* lines 131-161: the payload with what the message holds of JSON
ExtractJson(payload) ==
  LET message == Get(payload, K_message).v
  IN  IF ~re_escape_check(message) THEN payload
      ELSE
      LET parsed_json == ScanJson(message)
      IN  IF ~parsed_json.ok THEN payload
          ELSE IF JsonKeyTested \notin JsonResultNames THEN payload
          ELSE
          LET json_str == StripChars(parsed_json.json, { "'", "\n" })
              with_str == Put(payload, K_json_str, PyStr(json_str))
              decoded  == json_loads(json_str)
          IN  IF decoded.ok THEN Put(with_str, K_json, decoded.val)
              ELSE with_str

\* parse(log, log_ts): None, or the payload
parse(log, log_ts) ==
  LET parsed == ScanEntry(log)
  IN  IF ~parsed.ok THEN PyNone
      ELSE ExtractJson(
             PyDict(<< K_datetime, K_timestamp, K_priority, K_method_name,
                       K_method_num, K_message, K_json_str, K_json >>,
                    << PyDatetime(log_ts), PyStr(parsed.timestamp),
                       PyStr(parsed.priority), PyStr(parsed.method_name),
                       PyStr(parsed.method_num), PyStr(parsed.message),
                       PyNone, PyNone >>))

----------------------------------------------------------------------------
(* is_subset.  Its result is "True", "False" or, when an operation on a    *)
(* value of the wrong type raises, "TypeError".  all() and any() stop at   *)
(* the first element that decides them.                                    *)

\* PyEq comparing the types only
PyEqSameType(a, b) == a.t = b.t

\* a == b, for a scalar a (a str, an int, a datetime)
PyEq(a, b) == a.t = b.t /\ a.v = b.v

\* p is a substring of s
IsSubstring(p, s) ==
  \E n \in 0..(Len(s) - Len(p)) : SubSeq(s, n + 1, n + Len(p)) = p

\* key in superset, for a str key
KeyIn(key, superset) ==
  IF superset.t = "dict" THEN (IF HasKey(superset, key) THEN "True" ELSE "False")
  ELSE IF superset.t = "str"
       THEN (IF IsSubstring(key, superset.v) THEN "True" ELSE "False")
  ELSE IF superset.t \in { "list", "set" }
       THEN (IF \E n \in 1..Len(superset.v) : PyEq(PyStr(key), superset.v[n])
             THEN "True" ELSE "False")
  ELSE "TypeError"

\* the elements a for loop over superset yields, or TypeError
Iterate(superset) ==
  IF superset.t \in { "list", "set" }
  THEN [ ok |-> TRUE, items |-> superset.v ]
  ELSE IF superset.t = "dict"
       THEN [ ok |-> TRUE,
              items |-> [ n \in 1..Len(superset.k) |-> PyStr(superset.k[n]) ] ]
  ELSE IF superset.t = "str"
       THEN [ ok |-> TRUE,
              items |-> [ n \in 1..Len(superset.v) |-> PyStr(<< superset.v[n] >>) ] ]
  ELSE [ ok |-> FALSE ]

RECURSIVE is_subset(_, _)
RECURSIVE AllKeys(_, _, _)
RECURSIVE AnyItem(_, _, _)
RECURSIVE AllItems(_, _, _)

\* line 257: all(key in superset and is_subset(val, superset[key]) ...),
\* from the n-th item of subset on
AllKeys(subset, superset, n) ==
  IF n > Len(subset.k) THEN "True"
  ELSE LET has == KeyIn(subset.k[n], superset)
       IN  IF has # "True" THEN has
           ELSE IF superset.t # "dict" THEN "TypeError"
           ELSE LET r == is_subset(subset.v[n], Get(superset, subset.k[n]))
                IN  IF r = "True" THEN AllKeys(subset, superset, n + 1) ELSE r

\* line 260: any(is_subset(subitem, superitem) for superitem in superset),
\* from the n-th item on
AnyItem(subitem, items, n) ==
  IF n > Len(items) THEN "False"
  ELSE LET r == is_subset(subitem, items[n])
       IN  IF r = "False" THEN AnyItem(subitem, items, n + 1) ELSE r

\* line 260: all(any(...) for subitem in subset), from the n-th item on
AllItems(subset, superset, n) ==
  IF n > Len(subset.v) THEN "True"
  ELSE LET it == Iterate(superset)
       IN  IF ~it.ok THEN "TypeError"
           ELSE LET r == AnyItem(subset.v[n], it.items, 1)
                IN  IF r = "True" THEN AllItems(subset, superset, n + 1) ELSE r

\* is_subset without the test of superset against None
is_subsetCandidateUnchecked(subset, superset) ==
  IF subset.t = "None" THEN "False"
  ELSE IF subset.t = "dict" THEN AllKeys(subset, superset, 1)
  ELSE IF subset.t \in { "list", "set" } THEN AllItems(subset, superset, 1)
  ELSE IF PyEq(subset, superset) THEN "True" ELSE "False"

is_subset(subset, superset) ==
  IF subset.t = "None" \/ superset.t = "None" THEN "False"
  ELSE IF subset.t = "dict" THEN AllKeys(subset, superset, 1)
  ELSE IF subset.t \in { "list", "set" } THEN AllItems(subset, superset, 1)
  ELSE IF PyEq(subset, superset) THEN "True" ELSE "False"

----------------------------------------------------------------------------
(* The physical lines the log files are made of, the wall clocks at which  *)
(* the object is constructed and the retention windows it is given.        *)

HDec31 == << "D","e","c"," ","3","1"," ","2","3",":","5","9",":","5","9" >>

HJan1Edge == << "J","a","n"," ","1"," ","0","0",":","0","0",":","0","5" >>

HJan1Noon == << "J","a","n"," ","1"," ","1","2",":","0","0",":","0","0" >>

HFoo == << "F","o","o"," ","5"," ","0","8",":","0","0",":","0","0" >>

HFeb29 == << "F","e","b"," ","2","9"," ","0","8",":","0","0",":","0","0" >>

HBadTime == << "J","a","n"," ","5"," ","9","9",":","9","9",":","9","9" >>

Prefix ==
  << " ","[","I","N","F","O","]"," ","w","o","r","k","e","r",".","c","p","p",
     " ","(","1","2",")",":"," " >>

MsgHello == << "h","e","l","l","o" >>

MsgOpen == << "g","o","t"," ","\"","{" >>

MsgInline ==
  << "s","e","n","d"," ","\"","{","\"","a","\"",":","\"","b","\"","}","\"" >>

MsgJson == << "r"," ","{","\"","a","\"",":","\"","b","\"","}" >>

MsgBadJson == << "r"," ","{","a","}" >>

ContClose == << " ","\"","a","\"",":","\"","b","\"","}" >>

ContMid == << "\"","c","\"",":","\"","d","\"","," >>

Headers == { HDec31, HJan1Edge, HJan1Noon, HFoo, HFeb29, HBadTime }

Messages == { MsgOpen, MsgInline, MsgJson, MsgBadJson }

\* fh.readlines() keeps the newline that ends a line
Nl(s) == s \o << "\n" >>

EntryLines ==
  { Nl(h \o Prefix \o MsgHello) : h \in Headers }
    \cup { Nl(HJan1Noon \o Prefix \o m) : m \in Messages }
    \cup { Nl(HJan1Noon \o << " " >> \o MsgHello) }

ContLines == { Nl(ContClose), Nl(ContMid) }

PhysLines == EntryLines \cup ContLines

\* datetime.datetime.now() when the object is constructed
Clocks == { DateTime(2023, 1, 2, 0, 0, 5), DateTime(2024, 1, 1, 0, 0, 5) }

\* the argument after of __init__
Windows == { TimeDelta(1, 0), TimeDelta(365, 0) }

\* the queries search is called with:
\* {}, {"message": "hello"} and {"json": {"a": {}}}
FindAll == PyDict(<< >>, << >>)

FindHello == PyDict(<< K_message >>, << PyStr(MsgHello) >>)

FindJsonA ==
  PyDict(<< K_json >>, << PyDict(<< << "a" >> >>, << PyDict(<< >>, << >>) >>) >>)

Finds == { FindAll, FindHello, FindJsonA }

\* the number of physical lines read, over all files; each search after the
\* first is made when two lines fewer were read
MaxRead == 3

\* the number of calls of search
MaxSearch == 2

----------------------------------------------------------------------------
(* The object and the position of the program.                             *)

VARIABLES
  clock,         \* datetime.datetime.now() at construction
  now,           \* self.__now
  current_year,  \* self.__current_year
  after,         \* self.__after
  lines,         \* self.__lines
  lines_ts,      \* self.__lines_ts
  events,        \* self.__events
  pc,            \* "idle", "read" (inside load_log_file), "ValueError"
                 \* (raised in load_log_file) or "TypeError" (raised in search)
  escape,        \* the local escape of load_log_file
  line,          \* the local line of load_log_file: the line read last
  ts,            \* the local ts of load_log_file
  cur,           \* history: the index in lines of the entry opened by the last
                 \* entry-start line of the file being read, 0 when that line
                 \* was discarded or the file had none yet
  nread,         \* the number of physical lines read
  find,          \* the argument find of the last call of search
  nsearch,       \* the number of calls of search
  stdout,        \* the line load printed last, "" before the first
  subset,        \* the argument subset of a call of is_subset by itself
  superset,      \* its argument superset
  result         \* what that call returned or raised, "none" before it

vars ==
  << clock, now, current_year, after, lines, lines_ts, events, pc, escape,
     line, ts, cur, nread, find, nsearch, stdout, subset, superset, result >>

\* the arguments and the result of a call of is_subset by itself
call == << subset, superset, result >>

\* ts before its first assignment
NoTs == [ d |-> 0, s |-> 0 ]

\* __init__: lines 42-62
Construct ==
  /\ clock \in Clocks
  /\ now = DtAdd(clock, TimeDelta(0, 60))
  /\ current_year = YearOf(now)
  /\ after \in Windows
  /\ lines = << >>
  /\ lines_ts = << >>
  /\ events = << >>
  /\ pc = "idle"
  /\ escape = FALSE
  /\ line = << >>
  /\ ts = NoTs
  /\ cur = 0
  /\ nread = 0
  /\ find = PyNone
  /\ nsearch = 0
  /\ stdout = ""

\* the object constructed, and no call of is_subset by itself
Init ==
  /\ Construct
  /\ subset = PyNone
  /\ superset = PyNone
  /\ result = "none"

\* Resolve without the rollover: every candidate is of the current year
ResolveCurrentYear(candidate, ref) == candidate

\* lines 187-190: a candidate after __now belongs to last year
Resolve(candidate, ref) ==
  IF DtLess(ref, candidate) THEN DtSub(candidate, TimeDelta(365, 0))
  ELSE candidate

\* InWindow with the window counted from the wall clock, the margin taken
\* off again, and its first instant included
InWindowFromWallClock(t, ref, window) ==
  ~DtLess(t, DtSub(DtSub(ref, TimeDelta(0, 60)), window))

\* InWindow without the window: only entries after __now are left out
InWindowForgotten(t, ref, window) == ~DtLess(ref, t)

\* line 192: the entry is inside the retention window
InWindow(t, ref, window) == DtLess(DtSub(ref, window), t)

\* lines 194-203: the text an entry-start line opens its entry with
EntryText(l, esc) ==
  IF esc THEN replace(strip(l), << "\"","{","\"" >>, << "\"","{","\\","\"" >>)
  ELSE strip(l)

\* ContEscape without the reset at a line that ends with }
ContEscapeNeverReset(l, esc) == esc

\* lines 216-217: the escape state a continuation line is appended in
ContEscape(l, esc) == IF re_escape_end(strip(l)) THEN FALSE ELSE esc

\* lines 220-223: the text a continuation line adds to the last entry
ContText(l, esc) ==
  IF esc THEN replace(strip(l), << "\"" >>, << "\\","\"" >>)
  ELSE strip(l)

\* LoadMissing forgetting the entries loaded so far
LoadMissingResets ==
  /\ pc = "idle"
  /\ nsearch = 0
  /\ nread < MaxRead
  /\ stdout' = "Error: Log directory does not exist:"
  /\ lines' = << >>
  /\ lines_ts' = << >>
  /\ UNCHANGED << clock, now, current_year, after, events, pc, escape, line,
                  ts, cur, nread, find, nsearch, call >>

\* load, lines 227-229: path is not an existing directory; the condition is
\* printed and load returns.  Like a file, the directory is loaded while
\* lines are left to read.
LoadMissing ==
  /\ pc = "idle"
  /\ nsearch = 0
  /\ nread < MaxRead
  /\ stdout' = "Error: Log directory does not exist:"
  /\ UNCHANGED << clock, now, current_year, after, lines, lines_ts, events,
                  pc, escape, line, ts, cur, nread, find, nsearch, call >>

\* load_log_file, lines 174-175: open the file.  The files are loaded before
\* the first search, as the callers of the class do.
OpenFile ==
  /\ pc = "idle"
  /\ nsearch = 0
  /\ nread < MaxRead
  /\ pc' = "read"
  /\ escape' = FALSE
  /\ stdout' = "Processing log file:"
  /\ UNCHANGED << clock, now, current_year, after, lines, lines_ts, events,
                  line, ts, cur, nread, find, nsearch, call >>

\* load_log_file, lines 176-223: one iteration of the loop over the lines
ReadLine(l) ==
  /\ pc = "read"
  /\ nread < MaxRead
  /\ nread' = nread + 1
  /\ line' = l
  /\ LET ts_match == re_timestamp(l)
     IN  IF ts_match.ok
         THEN LET p == strptime(current_year, ts_match.month, ts_match.day,
                                ts_match.time)
              IN  IF ~p.ok
                  THEN \* strptime raises ValueError, which nothing catches
                       /\ pc' = "ValueError"
                       /\ UNCHANGED << lines, lines_ts, escape, ts, cur >>
                  ELSE LET t == Resolve(p.dt, now)
                       IN  /\ ts' = t
                           /\ pc' = pc
                           /\ IF InWindow(t, now, after)
                              THEN LET esc == escape \/ re_escape_start(strip(l))
                                   IN  /\ escape' = esc
                                       /\ lines' = Append(lines, EntryText(l, esc))
                                       /\ lines_ts' = Append(lines_ts, t)
                                       /\ cur' = Len(lines) + 1
                              ELSE /\ cur' = 0
                                   /\ UNCHANGED << lines, lines_ts, escape >>
         ELSE /\ pc' = pc
              /\ UNCHANGED << lines_ts, ts, cur >>
              /\ IF Len(lines) = 0
                 THEN UNCHANGED << lines, escape >>
                 ELSE LET esc == ContEscape(l, escape)
                      IN  /\ escape' = esc
                          /\ lines' = [ lines EXCEPT ![Len(lines)] =
                                          @ \o ContText(l, esc) ]
  /\ UNCHANGED << clock, now, current_year, after, events, find, nsearch,
                  stdout, call >>

\* load_log_file: readlines() is exhausted and the method returns; its
\* locals are gone
EndOfFile ==
  /\ pc = "read"
  /\ pc' = "idle"
  /\ escape' = FALSE
  /\ line' = << >>
  /\ ts' = NoTs
  /\ cur' = 0
  /\ UNCHANGED << clock, now, current_year, after, lines, lines_ts, events,
                  nread, find, nsearch, stdout, call >>

\* lines 245-248: the loop of search from entry n on; acc is __events
RECURSIVE SearchFrom(_, _, _)
SearchFrom(n, query, acc) ==
  IF n > Len(lines) THEN [ ok |-> TRUE, events |-> acc ]
  ELSE LET fields == parse(lines[n], lines_ts[n])
       IN  IF fields.t = "None" THEN SearchFrom(n + 1, query, acc)
           ELSE LET m == is_subset(query, fields)
                IN  IF m = "TypeError" THEN [ ok |-> FALSE, events |-> acc ]
                    ELSE SearchFrom(n + 1, query,
                                    IF m = "True" THEN Append(acc, fields) ELSE acc)

\* search(find), lines 244-249
Search(query) ==
  /\ pc = "idle"
  /\ nsearch < MaxSearch
  /\ nread + 2 * nsearch <= MaxRead
  /\ nsearch' = nsearch + 1
  /\ find' = query
  /\ LET r == SearchFrom(1, query, events)
     IN  /\ events' = r.events
         /\ pc' = IF r.ok THEN "idle" ELSE "TypeError"
  /\ UNCHANGED << clock, now, current_year, after, lines, lines_ts, escape,
                  line, ts, cur, nread, stdout, call >>

Next ==
  \/ LoadMissing
  \/ OpenFile
  \/ \E l \in PhysLines : ReadLine(l)
  \/ EndOfFile
  \/ \E q \in Finds : Search(q)

Spec == Init /\ [][Next]_vars

----------------------------------------------------------------------------
(* is_subset called by itself, on the values a query and a record are made *)
(* of.                                                                     *)

StrA == PyStr(<< "a" >>)

StrB == PyStr(<< "b" >>)

StrAB == PyStr(<< "a", "b" >>)

EmptyDict == PyDict(<< >>, << >>)

\* {"a": val}
DictA(val) == PyDict(<< << "a" >> >>, << val >>)

\* None, "a", "b", "ab", 1, {}, {"a": "b"}, {"a": None}, {"a": {}},
\* {"b": "a"}, [], ["a"], ["a", "a"], ["b", "a"], [None], [{"a": "b"}],
\* {"a"} and {"a": ["a", "b"]}
Terms ==
  { PyNone, StrA, StrB, StrAB, PyInt(1),
    EmptyDict, DictA(StrB), DictA(PyNone), DictA(EmptyDict),
    PyDict(<< << "b" >> >>, << StrA >>),
    PyList(<< >>), PyList(<< StrA >>), PyList(<< StrA, StrA >>),
    PyList(<< StrB, StrA >>), PyList(<< PyNone >>), PyList(<< DictA(StrB) >>),
    PySet(<< StrA >>), DictA(PyList(<< StrA, StrB >>)) }

\* an object, and the arguments of the call
InitIsSubset ==
  /\ Construct
  /\ subset \in Terms
  /\ superset \in Terms
  /\ result = "none"

\* self.is_subset(subset, superset), lines 252-263
CallIsSubset ==
  /\ result = "none"
  /\ result' = is_subset(subset, superset)
  /\ UNCHANGED << clock, now, current_year, after, lines, lines_ts, events,
                  pc, escape, line, ts, cur, nread, find, nsearch, stdout,
                  subset, superset >>

NextIsSubset == CallIsSubset

SpecIsSubset == InitIsSubset /\ [][NextIsSubset]_vars

----------------------------------------------------------------------------
(* Reassembly of the physical lines: load_log_file.                        *)

EndsWith(s, p) ==
  Len(p) <= Len(s) /\ SubSeq(s, Len(s) - Len(p) + 1, Len(s)) = p

\* the step reads a physical line, which is an entry-start line
EntryStep == nread' = nread + 1 /\ re_timestamp(line').ok

\* the step reads a physical line, which is a continuation line
ContStep == nread' = nread + 1 /\ ~re_timestamp(line').ok

\* the step changes entry i of lines only, by appending to it
AppendsTo(i) ==
  /\ Len(lines') = Len(lines)
  /\ \A k \in 1..Len(lines) : k # i => lines'[k] = lines[k]
  /\ StartsWith(lines'[i], lines[i])
  /\ Len(lines'[i]) > Len(lines[i])

\* C1: a continuation line is appended to the entry opened by the most
\* recent entry-start line before it, or discarded when that entry-start
\* line was discarded or when there was none; it is never appended to an
\* earlier kept entry.
C1_ContinuationJoinsItsEntry ==
  [][ ContStep => IF cur = 0 THEN lines' = lines ELSE AppendsTo(cur) ]_vars

\* C2: whenever a kept entry-start line opens a new entry, escape is TRUE
\* if and only if the trimmed line ends with "{ .
C2_EscapeSetByOpeningLine ==
  [][ (EntryStep /\ Len(lines') = Len(lines) + 1)
        => (escape' <=> EndsWith(strip(line'), << "\"","{" >>)) ]_vars

\* a continuation line ending with } is read while escape is TRUE and there
\* is an entry to append to
ClosingStep ==
  ContStep /\ escape /\ Len(lines) > 0 /\ EndsWith(strip(line'), << "}" >>)

\* C3 as stated: the line that closes the JSON block is appended with its
\* double quotes escaped, and escape becomes FALSE after it.
C3_ClosingLineEscaped ==
  [][ ClosingStep
        => /\ lines'[Len(lines)] =
                lines[Len(lines)]
                  \o replace(strip(line'), << "\"" >>, << "\\","\"" >>)
           /\ escape' = FALSE ]_vars

\* C3, amended: escape becomes FALSE before the append, so the line that
\* closes the JSON block is itself appended unmodified, like those after it.
C3_ClosingLineUnmodified ==
  [][ ClosingStep
        => /\ lines'[Len(lines)] = lines[Len(lines)] \o strip(line')
           /\ escape' = FALSE ]_vars

C3_Witness ==
  /\ pc = "read"
  /\ line = Nl(ContClose)
  /\ ~escape
  /\ Len(lines) > 0
  /\ EndsWith(lines[Len(lines)], MsgOpen \o strip(ContClose))

\* C4: the timestamp resolved for an entry-start line is never later than
\* __now, the reference now plus the forward-tolerance margin.
C4_ResolvedNotAfterNow == ts # NoTs => ~DtLess(now, ts)

\* the candidate timestamp of the line read last, built with the current year
Candidate ==
  LET m == re_timestamp(line)
  IN  IF m.ok THEN strptime(current_year, m.month, m.day, m.time)
      ELSE ValueError

\* C5: when the candidate built with the current year is strictly after
\* __now, the resolved timestamp has the year current_year - 1 and the
\* month and day of the candidate.
C5_RolloverKeepsMonthDay ==
  (pc = "read" /\ Candidate.ok /\ DtLess(now, Candidate.dt))
    => /\ YearOf(ts) = current_year - 1
       /\ MonthOf(ts) = MonthOf(Candidate.dt)
       /\ DayOf(ts) = DayOf(Candidate.dt)

\* the step reads an entry-start line whose timestamp resolves
ResolvedStep == EntryStep /\ pc' = "read"

\* the step opens a new entry with the timestamp it resolved
KeptStep ==
  /\ Len(lines') = Len(lines) + 1
  /\ Len(lines_ts') = Len(lines_ts) + 1
  /\ lines_ts'[Len(lines_ts')] = ts'

\* C6 as stated: an entry-start line whose resolved timestamp is not
\* strictly older than clock - after, clock being the wall clock without
\* the margin, is kept.
C6_KeptFromWallClockWindow ==
  [][ (ResolvedStep /\ ~DtLess(ts', DtSub(clock, after))) => KeptStep ]_vars

\* C6, amended: an entry-start line is kept if and only if its resolved
\* timestamp is strictly later than (clock + one minute) - after; an entry
\* timestamped exactly clock - after, or up to one minute after it, is
\* discarded.
C6_KeptFromMarginWindow ==
  [][ ResolvedStep
        => IF DtLess(DtSub(DtAdd(clock, TimeDelta(0, 60)), after), ts')
           THEN KeptStep
           ELSE lines' = lines /\ lines_ts' = lines_ts ]_vars

C6_Witness ==
  /\ pc = "read"
  /\ line = Nl(HJan1Edge \o Prefix \o MsgHello)
  /\ ts = DtSub(clock, after)
  /\ cur = 0
  /\ nread = 1
  /\ lines = << >>

\* C7: no timestamp in lines_ts is older than clock - after.
C7_KeptInsideWindow ==
  \A i \in 1..Len(lines_ts) : ~DtLess(lines_ts[i], DtSub(clock, after))

C7_Witness ==
  /\ pc = "read"
  /\ Len(lines_ts) >= 1
  /\ re_timestamp(line).ok
  /\ cur = 0
  /\ DtLess(ts, DtSub(clock, after))

\* C8: load_log_file never aborts: no line makes it raise.
C8_NeverAborts == pc # "ValueError"

----------------------------------------------------------------------------
(* Tokenizing and JSON extraction: parse, as search calls it.              *)

\* the span of message from its first { to its last }, << >> without one
BraceSpan(message) ==
  LET opens  == { i \in 1..Len(message) : message[i] = "{" }
      closes == { j \in 1..Len(message) : message[j] = "}" }
  IN  IF opens = {} \/ closes = {} THEN << >>
      ELSE SubSeq(message, SetMin(opens), SetMax(closes))

\* C9: in every record parse returns, json is set if and only if the message
\* has a span from its first { to its last } that json.loads decodes, and
\* then json_str is set too.
C9_JsonSetIffSpanDecodes ==
  \A n \in 1..Len(events) :
    LET span    == BraceSpan(Get(events[n], K_message).v)
        decodes == span # << >> /\ json_loads(span).ok
    IN  /\ (Get(events[n], K_json).t # "None") <=> decodes
        /\ decodes => Get(events[n], K_json_str).t # "None"

\* the maximal runs of s without white space
RECURSIVE Words(_)
Words(s) ==
  LET i == SkipWhite(s, 1)
      n == Run(s, i, { s[k] : k \in 1..Len(s) } \ WhiteChars)
  IN  IF i > Len(s) THEN << >>
      ELSE << SubSeq(s, i, i + n - 1) >> \o Words(SubSeq(s, i + n, Len(s)))

\* the first position of character c in s from position i on, 0 without one
FirstAt(s, c, i) ==
  LET at == { k \in i..Len(s) : s[k] = c }
  IN  IF at = {} THEN 0 ELSE SetMin(at)

\* s is one or more characters of set
AllIn(s, set) == Len(s) >= 1 /\ \A k \in 1..Len(s) : s[k] \in set

\* HH:MM:SS, each of one or more digits
IsClock(w) ==
  LET c1 == FirstAt(w, ":", 1)
      c2 == FirstAt(w, ":", c1 + 1)
  IN  /\ c1 > 0 /\ c2 > 0
      /\ AllIn(SubSeq(w, 1, c1 - 1), Nums)
      /\ AllIn(SubSeq(w, c1 + 1, c2 - 1), Nums)
      /\ AllIn(SubSeq(w, c2 + 1, Len(w)), Nums)

\* the fixed prefix grammar of an entry:
\* <month> <day> <HH:MM:SS> [<PRIORITY>] <method_name> (<method_line>): <message>
\* b0, b1, q0, q1 are the positions of [ ] ( and )
PrefixFields(s) ==
  LET b0   == FirstAt(s, "[", 1)
      b1   == FirstAt(s, "]", b0 + 1)
      q0   == FirstAt(s, "(", b1 + 1)
      q1   == FirstAt(s, ")", q0 + 1)
      head == Words(SubSeq(s, 1, b0 - 1))
      msg  == SubSeq(s, q1 + 2, Len(s))
  IN  IF /\ b0 > 0 /\ b1 > 0 /\ q0 > 0 /\ q1 > 0
         /\ q1 < Len(s) /\ s[q1 + 1] = ":"
         /\ ~IsSpace(s[1])
         /\ Len(head) = 3
         /\ Len(head[1]) = 3
         /\ head[1][1] \in Uppers /\ head[1][2] \in Lowers /\ head[1][3] \in Lowers
         /\ AllIn(head[2], Nums)
         /\ IsClock(head[3])
         /\ AllIn(strip(SubSeq(s, b0 + 1, b1 - 1)), Uppers)
         /\ AllIn(strip(SubSeq(s, b1 + 1, q0 - 1)), MethodChars)
         /\ AllIn(strip(SubSeq(s, q0 + 1, q1 - 1)), Nums)
      THEN [ ok          |-> TRUE,
             timestamp   |-> strip(SubSeq(s, 1, b0 - 1)),
             priority    |-> strip(SubSeq(s, b0 + 1, b1 - 1)),
             method_name |-> strip(SubSeq(s, b1 + 1, q0 - 1)),
             method_num  |-> strip(SubSeq(s, q0 + 1, q1 - 1)),
             message     |-> SubSeq(msg, SkipWhite(msg, 1), Len(msg)) ]
      ELSE [ ok |-> FALSE ]

\* the entries of lines, from entry n on, that match the prefix grammar
RECURSIVE PrefixMatches(_)
PrefixMatches(n) ==
  IF n > Len(lines) THEN << >>
  ELSE (IF PrefixFields(lines[n]).ok THEN << n >> ELSE << >>)
         \o PrefixMatches(n + 1)

\* C10: parse returns None only for an entry the prefix grammar does not
\* match: search({}) returns one record for every entry the grammar matches,
\* in order, with datetime, timestamp, priority, method_name, method_num and
\* message populated from the entry, whatever its message holds of JSON.
C10_RecordForEveryPrefixMatch ==
  (pc = "idle" /\ nsearch = 1 /\ find = FindAll)
    => LET m == PrefixMatches(1)
       IN  /\ Len(events) = Len(m)
           /\ \A j \in 1..Len(m) :
                LET f == PrefixFields(lines[m[j]])
                    r == events[j]
                IN  /\ Get(r, K_datetime) = PyDatetime(lines_ts[m[j]])
                    /\ Get(r, K_timestamp) = PyStr(f.timestamp)
                    /\ Get(r, K_priority) = PyStr(f.priority)
                    /\ Get(r, K_method_name) = PyStr(f.method_name)
                    /\ Get(r, K_method_num) = PyStr(f.method_num)
                    /\ Get(r, K_message) = PyStr(f.message)

C10_Witness ==
  /\ pc = "idle" /\ nsearch = 1 /\ find = FindAll
  /\ \E n \in 1..Len(lines) : ~PrefixFields(lines[n]).ok
  /\ \E j \in 1..Len(events) :
       /\ Get(events[j], K_message) = PyStr(MsgBadJson)
       /\ Get(events[j], K_json).t = "None"
  /\ \E j \in 1..Len(events) : Get(events[j], K_message) = PyStr(MsgHello)

----------------------------------------------------------------------------
(* Reassembly and search, end to end.                                      *)

\* the object {"a": "b"}
DecodedAB == PyDict(<< << "a" >> >>, << PyStr(<< "b" >>) >>)

\* value j is the dict with keys ks and values vs
IsDict(j, ks, vs) == j.t = "dict" /\ j.k = ks /\ j.v = vs

\* C11: the entry reassembled from a kept entry-start line that ends with "{
\* and the continuation line "a":"b"} is one logical entry, and the record
\* parse makes of it has the decoded object {"a": "b"} as its json.
C11_ReassembledJsonDecoded ==
  \A n \in 1..Len(events) :
    Get(events[n], K_message) = PyStr(MsgOpen \o strip(ContClose))
      => IsDict(Get(events[n], K_json), DecodedAB.k, DecodedAB.v)

\* the message of entry s carries a payload that decodes to an object with
\* the key a
CarriesKeyA(s) ==
  LET f    == PrefixFields(s)
      span == IF f.ok THEN BraceSpan(f.message) ELSE << >>
      d    == IF span # << >> THEN json_loads(span) ELSE JSONDecodeError
  IN  f.ok /\ d.ok /\ d.val.t = "dict" /\ HasKey(d.val, << "a" >>)

\* the entries of lines, from entry n on, that carry such a payload
RECURSIVE PayloadMatches(_)
PayloadMatches(n) ==
  IF n > Len(lines) THEN << >>
  ELSE (IF CarriesKeyA(lines[n]) THEN << n >> ELSE << >>)
         \o PayloadMatches(n + 1)

\* C12: the first call of search returns, in file order, exactly the records
\* of the loaded entries that is_subset accepts; for the query
\* {"json": {"a": {}}} these are the records of the entries whose message
\* carries a decodable payload with the key a.
C12_PayloadQueryFindsItsRecords ==
  (pc = "idle" /\ nsearch = 1 /\ find = FindJsonA)
    => LET m == PayloadMatches(1)
       IN  /\ Len(events) = Len(m)
           /\ \A j \in 1..Len(m) :
                /\ Get(events[j], K_datetime) = PyDatetime(lines_ts[m[j]])
                /\ Get(events[j], K_message) =
                     PyStr(PrefixFields(lines[m[j]]).message)

----------------------------------------------------------------------------
(* is_subset, called by itself.                                            *)

\* candidate c is a mapping that has every key of query q, with a value the
\* value of q under that key matches
MappingExpected(q, c) ==
  /\ c.t = "dict"
  /\ \A n \in 1..Len(q.k) :
       /\ HasKey(c, q.k[n])
       /\ is_subset(q.v[n], Get(c, q.k[n])) = "True"

\* C13: with a mapping query, is_subset returns true if and only if the
\* candidate is a mapping that has every key of the query with a matching
\* value; for a candidate that is no mapping it returns false and raises
\* nothing.
C13_MappingQueryNeedsMapping ==
  (result # "none" /\ subset.t = "dict")
    => result = IF MappingExpected(subset, superset) THEN "True" ELSE "False"

\* candidate c is a sequence in which every element of query q matches some
\* element
SequenceExpected(q, c) ==
  /\ c.t \in { "list", "set" }
  /\ \A n \in 1..Len(q.v) :
       \E m \in 1..Len(c.v) : is_subset(q.v[n], c.v[m]) = "True"

\* C14: with a sequence or set query, is_subset returns true if and only if
\* the candidate is a sequence and every element of the query matches at
\* least one of its elements; for a candidate that is no sequence it returns
\* false and raises nothing.
C14_SequenceQueryNeedsSequence ==
  (result # "none" /\ subset.t \in { "list", "set" })
    => result = IF SequenceExpected(subset, superset) THEN "True" ELSE "False"

\* the call is of a query {k: {}} on a mapping
KeyQueryCall ==
  /\ result # "none"
  /\ subset.t = "dict" /\ Len(subset.k) = 1
  /\ subset.v[1].t = "dict" /\ Len(subset.v[1].k) = 0
  /\ superset.t = "dict"

\* C15 as stated: a query {k: {}} matches a mapping if and only if the
\* mapping has the key k, whatever the value under it, None included.
C15_KeyPresentAnyValue ==
  KeyQueryCall => (result = "True" <=> HasKey(superset, subset.k[1]))

\* C15, amended: a query {k: {}} matches a mapping if and only if the
\* mapping has the key k with a value that is not None; under a key whose
\* value is None it does not match.
C15_KeyPresentValueNotNone ==
  KeyQueryCall
    => result = IF /\ HasKey(superset, subset.k[1])
                   /\ Get(superset, subset.k[1]).t # "None"
                THEN "True" ELSE "False"

C15_Witness ==
  /\ KeyQueryCall
  /\ HasKey(superset, subset.k[1])
  /\ Get(superset, subset.k[1]).t = "None"
  /\ result = "False"

\* C16: is_subset returns false whenever the query or the candidate is None,
\* in the call and in the calls it makes on the values under a key and on
\* the elements of a sequence, so that no query holding None where the
\* candidate is looked at matches; a scalar query matches the candidates
\* equal to it by value and no other.
C16_NoneNeverMatchesScalarByValue ==
  result # "none"
    => /\ (subset.t = "None" \/ superset.t = "None") => result = "False"
       /\ (subset.t \in { "str", "int" } /\ superset.t # "None")
            => result = IF superset.t = subset.t /\ superset.v = subset.v
                        THEN "True" ELSE "False"
       /\ ( /\ subset.t = "dict" /\ superset.t = "dict"
            /\ \E n \in 1..Len(subset.k) :
                 /\ HasKey(superset, subset.k[n])
                 /\ \/ subset.v[n].t = "None"
                    \/ Get(superset, subset.k[n]).t = "None" )
            => result # "True"
       /\ ( /\ subset.t \in { "list", "set" }
            /\ \E n \in 1..Len(subset.v) : subset.v[n].t = "None" )
            => result # "True"

C16_Witness ==
  /\ result = "False"
  /\ subset.t = "dict" /\ superset.t = "dict"
  /\ Len(subset.k) = 1 /\ HasKey(superset, subset.k[1])
  /\ subset.v[1].t = "None"
  /\ Get(superset, subset.k[1]).t = "None"

----------------------------------------------------------------------------
(* load, the buffers and search.                                           *)

C18_OnlyJsonBlockLinesEscaped ==
  [][ /\ (EntryStep /\ Len(lines') = Len(lines) + 1)
           => lines'[Len(lines')] = strip(line')
      /\ (ContStep /\ lines' # lines)
           => lines'[Len(lines)] =
                lines[Len(lines)]
                  \o (IF escape'
                      THEN replace(strip(line'), << "\"" >>, << "\\","\"" >>)
                      ELSE strip(line')) ]_vars

\* the timestamp of the entry-start line entry s was opened with, counted
\* back 365 days when the current year puts it after __now
OpenedAt(s) ==
  LET m == re_timestamp(s)
      p == strptime(current_year, m.month, m.day, m.time)
  IN  IF DtLess(now, p.dt) THEN DtSub(p.dt, TimeDelta(365, 0)) ELSE p.dt

\* C19: lines and lines_ts have the same length, which grows by one with
\* every kept entry-start line and with nothing else, and lines_ts[i] is the
\* resolved timestamp of the entry-start line that opened lines[i].
C19_BuffersInStep ==
  /\ []( /\ Len(lines) = Len(lines_ts)
         /\ \A i \in 1..Len(lines) : lines_ts[i] = OpenedAt(lines[i]) )
  /\ [][ Len(lines') =
           IF ResolvedStep /\ DtLess(DtSub(now, after), ts')
           THEN Len(lines) + 1 ELSE Len(lines) ]_vars

C19_Witness ==
  /\ Len(lines) = 2 /\ Len(lines_ts) = 2
  /\ nread = 3
  /\ \E i \in 1..2 :
       LET m == re_timestamp(lines[i])
       IN  lines_ts[i] # strptime(current_year, m.month, m.day, m.time).dt

\* C20: every call of search returns exactly the records that match the
\* query of that call, each once, whatever was searched before.
C20_SearchReturnsThisCallOnly ==
  (pc = "idle" /\ nsearch >= 1) => events = SearchFrom(1, find, << >>).events

====
